---- MODULE Spec2Model ----
(***************************************************************************)
(* Model of the consciousness-loop simulation of src/app/src/App.js: the   *)
(* Simulation component's two pieces of React state (simData, log), the    *)
(* module-level template initialSimState, and the two handlers             *)
(* runSimulationCycle and resetSimulation.                                 *)
(*                                                                         *)
(* Strings that the code builds with template literals and takes apart     *)
(* with a regular expression are sequences of tokens: a concept id is a    *)
(* sequence such as <<"belief system", "-A">>, a goal is a prefix token, a *)
(* quote, the concept's tokens and a closing quote.  Math.random() is a    *)
(* number of hundredths, 0..99.                                            *)
(***************************************************************************)
EXTENDS Integers, Sequences, FiniteSets, TLC

VARIABLES
    initialSimState,  \* the module-level template object (App.js:47-64)
    simData,          \* useState of Simulation (App.js:247)
    log               \* useState of Simulation (App.js:248)

vars == <<initialSimState, simData, log>>

\* ---------------------------------------------------------------- bounds
\* Number of "Break down" steps the model lets one run perform between two
\* resets (each adds two nodes, so the graph is otherwise unbounded).
MaxBreakdowns == 4

\* Values of Math.random(), in hundredths: the two sides of the 0.25
\* threshold of line 263, and draws that pick the first and the last
\* neighbour at line 311.
RandomDraws == {24, 25, 90}

\* ------------------------------------------------------------ arithmetic
Min(a, b) == IF a < b THEN a ELSE b

Max(a, b) == IF a > b THEN a ELSE b

\* ------------------------------------------------------- strings, tokens
QUOTE == "'"

DeepenPrefix == "Deepen understanding of the concept: "

BreakDownPrefix == "Break down the concept: "

ExpandPrefix == "Expand knowledge from "

\* Template literals of lines 49/295, 273 and 304.
DeepenGoal(c) == <<DeepenPrefix, QUOTE>> \o c \o <<QUOTE>>

BreakDownGoal(c) == <<BreakDownPrefix, QUOTE>> \o c \o <<QUOTE>>

ExpandGoal(c) == <<ExpandPrefix, QUOTE>> \o c \o <<QUOTE>>

\* The substrings each token contains, of those the code searches for.
TokenIncludes(tok, phrase) ==
    \/ tok = phrase
    \/ tok = DeepenPrefix /\ phrase = "Deepen understanding"
    \/ tok = BreakDownPrefix /\ phrase = "Break down"

\* String.prototype.includes (lines 265, 282).
Includes(str, phrase) == \E i \in DOMAIN str : TokenIncludes(str[i], phrase)

\* goal.match(/'(.*?)'/): the first quote that has a later quote, and the
\* shortest text up to the next quote; null when there is no such pair.
NoMatch == <<"null">>

MatchQuoted(str) ==
    LET opens == {i \in DOMAIN str : str[i] = QUOTE /\ \E j \in DOMAIN str : j > i /\ str[j] = QUOTE}
    IN  IF opens = {} THEN NoMatch
        ELSE LET i == CHOOSE k \in opens : \A m \in opens : k <= m
                 j == CHOOSE k \in DOMAIN str :
                        /\ k > i /\ str[k] = QUOTE
                        /\ \A m \in DOMAIN str : (m > i /\ str[m] = QUOTE) => k <= m
             IN  SubSeq(str, i + 1, j - 1)

\* ------------------------------------------------------------- the state
BeliefSystem == <<"belief system">>

Knowledge == <<"knowledge">>

Delusions == <<"delusions">>

Creativity == <<"creativity">>

\* const initialSimState = {...} (lines 47-64).
InitialSnapshot ==
    [ state  |-> [curiosity |-> 65, boredom |-> 0, pain |-> 0],
      goals  |-> [active |-> <<DeepenGoal(BeliefSystem)>>, completed |-> <<>>],
      memory |-> [ nodes |-> (BeliefSystem :> [x |-> 50, y |-> 20, understood |-> FALSE])
                          @@ (Knowledge    :> [x |-> 20, y |-> 50, understood |-> FALSE])
                          @@ (Delusions    :> [x |-> 80, y |-> 50, understood |-> FALSE])
                          @@ (Creativity   :> [x |-> 20, y |-> 80, understood |-> FALSE]),
                   links |-> << [source |-> Knowledge,    target |-> BeliefSystem],
                                [source |-> BeliefSystem, target |-> Delusions],
                                [source |-> Knowledge,    target |-> Creativity] >> ],
      focus  |-> BeliefSystem ]

\* JSON.parse(JSON.stringify(obj)) on a simulation state: every member is
\* written out and read back, member by member, into a fresh object.
JSONClone(obj) ==
    [ state  |-> [curiosity |-> obj.state.curiosity,
                  boredom   |-> obj.state.boredom,
                  pain      |-> obj.state.pain],
      goals  |-> [active    |-> [i \in 1..Len(obj.goals.active) |-> obj.goals.active[i]],
                  completed |-> [i \in 1..Len(obj.goals.completed) |-> obj.goals.completed[i]]],
      memory |-> [nodes |-> [c \in DOMAIN obj.memory.nodes |->
                               [x |-> obj.memory.nodes[c].x,
                                y |-> obj.memory.nodes[c].y,
                                understood |-> obj.memory.nodes[c].understood]],
                  links |-> [i \in 1..Len(obj.memory.links) |->
                               [source |-> obj.memory.links[i].source,
                                target |-> obj.memory.links[i].target]]],
      focus  |-> obj.focus ]

\* ---------------------------------------------------------------- the log
Entry(type, message) == [type |-> type, message |-> message]

StartLog == <<Entry("info", <<"Simulation not started. Press \"Run Cycle\".">>)>>

ResetLog == <<Entry("info", <<"Simulation reset. Press \"Run Cycle\".">>)>>

\* Variant of line 251: one entry too many is kept.
SliceLast21(s) == IF Len(s) <= 21 THEN s ELSE SubSeq(s, Len(s) - 20, Len(s))

\* prevLog.slice(-20)
SliceLast20(s) == IF Len(s) <= 20 THEN s ELSE SubSeq(s, Len(s) - 19, Len(s))

\* logToSim (lines 250-252), as the updater it queues.
logToSim(prevLog, message, type) == SliceLast20(prevLog) \o <<Entry(type, message)>>

\* ------------------------------------------------------------ log messages
FocusMsg(c) == <<"Goal-directed focus: <strong>">> \o c \o <<"</strong>">>

MalformedMsg == <<"LLM response malformed. Rejecting thought.">>

PainMsg(c) == <<"Pain threshold reached for ", QUOTE>> \o c \o <<QUOTE, ". This is too difficult.">>

StrategyMsg == <<"New Strategy: Break down the concept.">>

UnderstoodMsg(c) == <<"Successfully understood ", QUOTE>> \o c \o <<QUOTE, ". Storing memory.">>

BrokeDownMsg(c) == <<"Successfully broke down ", QUOTE>> \o c \o <<QUOTE, ".">>

\* subConcepts.join(', ')
JoinComma(strs) == strs[1] \o <<", ">> \o strs[2]

DiscoveredMsg(subs) == <<"New sub-concepts discovered: ">> \o JoinComma(subs)

IdleMsg == <<"Idle mode. No active goals.">>

BoredomMsg == <<"Boredom threshold reached. Seeking novelty.">>

WanderMsg(c) == <<"Mind wanders to: <strong>">> \o c \o <<"</strong>">>

\* --------------------------------------------------- runSimulationCycle
\* A step's working pair: newData and the log as the queued logToSim
\* updaters leave it.
Pair(d, lg) == [data |-> d, log |-> lg]

\* Array.prototype.shift / unshift / push on a list.
Shift(s) == Tail(s)

Unshift(s, e) == <<e>> \o s

Push(s, e) == Append(s, e)

\* Variant of line 288: the reverse() left out.
ReverseOmitted(s) == s

\* Array.prototype.reverse (line 288).
Reverse(s) == [i \in 1..Len(s) |-> s[Len(s) + 1 - i]]

\* Variant of line 263: pain of exactly 50 already forces the failure.
ShouldFailFrom50(rnd, pain) == rnd < 25 \/ pain >= 50

\* line 263
ShouldFail(rnd, pain) == rnd < 25 \/ pain > 50

\* line 268
PainAfterFailure(pain) == Min(100, pain + 25)

\* Variant of line 269: the threshold five too low.
PainThresholdReachedAt75(pain) == pain >= 75

\* Variant of line 269: strict comparison with 80.
PainThresholdReachedAbove80(pain) == pain > 80

\* line 269
PainThresholdReached(pain) == pain >= 80

\* Variants of line 280: the floor forgotten; the wrong decrement.
PainAfterSuccessUnclamped(pain) == pain - 20

PainAfterSuccessBy25(pain) == Max(0, pain - 25)

\* line 280
PainAfterSuccess(pain) == Max(0, pain - 20)

\* line 300
BoredomAfterIdle(boredom) == Min(100, boredom + 15)

\* Variant of line 302: strict comparison.
BoredomThresholdReachedStrict(boredom) == boredom > 75

\* line 302
BoredomThresholdReached(boredom) == boredom >= 75

\* Variant of line 273: the new goal is pushed at the end of active.
DeepenFailurePushingLast(d, lg) ==
    LET lg1 == logToSim(lg, MalformedMsg, "warn")
        d1  == [d EXCEPT !.state.pain = PainAfterFailure(d.state.pain)]
    IN  IF PainThresholdReached(d1.state.pain)
        THEN LET lg2 == logToSim(lg1, PainMsg(d1.focus), "critical")
                 lg3 == logToSim(lg2, StrategyMsg, "info")
                 d2  == [d1 EXCEPT !.goals.active = Shift(@)]
                 d3  == [d2 EXCEPT !.goals.active = Push(@, BreakDownGoal(d2.focus))]
                 d4  == [d3 EXCEPT !.state.pain = 0]
             IN  Pair(d4, lg3)
        ELSE Pair(d1, lg1)

\* Variant of lines 269-275: line 274 left out, pain stays at its peak.
DeepenFailureWithoutPainReset(d, lg) ==
    LET lg1 == logToSim(lg, MalformedMsg, "warn")
        d1  == [d EXCEPT !.state.pain = PainAfterFailure(d.state.pain)]
    IN  IF PainThresholdReached(d1.state.pain)
        THEN LET lg2 == logToSim(lg1, PainMsg(d1.focus), "critical")
                 lg3 == logToSim(lg2, StrategyMsg, "info")
                 d2  == [d1 EXCEPT !.goals.active = Shift(@)]
                 d3  == [d2 EXCEPT !.goals.active = Unshift(@, BreakDownGoal(d2.focus))]
             IN  Pair(d3, lg3)
        ELSE Pair(d1, lg1)

\* Variant of lines 266-275: line 272 left out, the "Deepen understanding"
\* goal stays on active behind the new "Break down" goal.
DeepenFailureWithoutShift(d, lg) ==
    LET lg1 == logToSim(lg, MalformedMsg, "warn")
        d1  == [d EXCEPT !.state.pain = PainAfterFailure(d.state.pain)]
    IN  IF PainThresholdReached(d1.state.pain)
        THEN LET lg2 == logToSim(lg1, PainMsg(d1.focus), "critical")
                 lg3 == logToSim(lg2, StrategyMsg, "info")
                 d3  == [d1 EXCEPT !.goals.active = Unshift(@, BreakDownGoal(d1.focus))]
                 d4  == [d3 EXCEPT !.state.pain = 0]
             IN  Pair(d4, lg3)
        ELSE Pair(d1, lg1)

\* lines 266-275: the failure branch of "Deepen understanding".
DeepenFailure(d, lg) ==
    LET lg1 == logToSim(lg, MalformedMsg, "warn")
        d1  == [d EXCEPT !.state.pain = PainAfterFailure(d.state.pain)]
    IN  IF PainThresholdReached(d1.state.pain)
        THEN LET lg2 == logToSim(lg1, PainMsg(d1.focus), "critical")
                 lg3 == logToSim(lg2, StrategyMsg, "info")
                 d2  == [d1 EXCEPT !.goals.active = Shift(@)]
                 d3  == [d2 EXCEPT !.goals.active = Unshift(@, BreakDownGoal(d2.focus))]
                 d4  == [d3 EXCEPT !.state.pain = 0]
             IN  Pair(d4, lg3)
        ELSE Pair(d1, lg1)

\* Variant of lines 276-281: the goal is copied to completed but not shifted
\* off active.
DeepenSuccessWithoutShift(d, lg) ==
    LET lg1 == logToSim(lg, UnderstoodMsg(d.focus), "success")
        d1  == [d EXCEPT !.memory.nodes[d.focus].understood = TRUE]
        d2  == [d1 EXCEPT !.goals.completed = Push(@, Head(d1.goals.active))]
        d3  == [d2 EXCEPT !.state.pain = PainAfterSuccess(d2.state.pain)]
    IN  Pair(d3, lg1)

\* Variant of lines 276-281: line 278 left out, the node is not marked.
DeepenSuccessWithoutMark(d, lg) ==
    LET lg1 == logToSim(lg, UnderstoodMsg(d.focus), "success")
        d2  == [d EXCEPT !.goals.completed = Push(@, Head(d.goals.active)),
                         !.goals.active = Shift(@)]
        d3  == [d2 EXCEPT !.state.pain = PainAfterSuccess(d2.state.pain)]
    IN  Pair(d3, lg1)

\* lines 276-281: the success branch of "Deepen understanding".
DeepenSuccess(d, lg) ==
    LET lg1 == logToSim(lg, UnderstoodMsg(d.focus), "success")
        d1  == [d EXCEPT !.memory.nodes[d.focus].understood = TRUE]
        d2  == [d1 EXCEPT !.goals.completed = Push(@, Head(d1.goals.active)),
                          !.goals.active = Shift(@)]
        d3  == [d2 EXCEPT !.state.pain = PainAfterSuccess(d2.state.pain)]
    IN  Pair(d3, lg1)

\* line 284
SubConceptsOf(focus) == << focus \o <<"-A">>, focus \o <<"-B">> >>

\* lines 289-293: the node made for the i-th sub-concept (i counts from 0).
ChildNode(parentNode, i) ==
    [x |-> parentNode.x + (i * 15 - 10), y |-> parentNode.y + 25, understood |-> FALSE]

\* Variant of lines 288-296: the node is not stored.
AddSubConceptWithoutNode(d, parentNode, sc, i) ==
    LET d2 == [d EXCEPT !.memory.links = Push(@, [source |-> d.focus, target |-> sc])]
    IN  [d2 EXCEPT !.goals.active = Unshift(@, DeepenGoal(sc))]

\* Variant of lines 288-296: the link of line 294 joins the sub-concept to
\* itself instead of to the parent.
AddSubConceptSelfLink(d, parentNode, sc, i) ==
    LET nodes1 == [c \in DOMAIN d.memory.nodes \cup {sc} |->
                     IF c = sc THEN ChildNode(parentNode, i) ELSE d.memory.nodes[c]]
        d1 == [d EXCEPT !.memory.nodes = nodes1]
        d2 == [d1 EXCEPT !.memory.links = Push(@, [source |-> sc, target |-> sc])]
        d3 == [d2 EXCEPT !.goals.active = Unshift(@, DeepenGoal(sc))]
    IN  d3

\* lines 288-296: the body of the forEach callback for element sc, index i.
AddSubConcept(d, parentNode, sc, i) ==
    LET nodes1 == [c \in DOMAIN d.memory.nodes \cup {sc} |->
                     IF c = sc THEN ChildNode(parentNode, i) ELSE d.memory.nodes[c]]
        d1 == [d EXCEPT !.memory.nodes = nodes1]
        d2 == [d1 EXCEPT !.memory.links = Push(@, [source |-> d1.focus, target |-> sc])]
        d3 == [d2 EXCEPT !.goals.active = Unshift(@, DeepenGoal(sc))]
    IN  d3

RECURSIVE ForEachSubConcept(_, _, _, _)
ForEachSubConcept(d, parentNode, subs, i) ==
    IF i >= Len(subs) THEN d
    ELSE ForEachSubConcept(AddSubConcept(d, parentNode, subs[i + 1], i), parentNode, subs, i + 1)

\* lines 282-297: "Break down".
BreakDown(d, lg) ==
    LET lg1 == logToSim(lg, BrokeDownMsg(d.focus), "success")
        subConcepts == SubConceptsOf(d.focus)
        lg2 == logToSim(lg1, DiscoveredMsg(subConcepts), "info")
        parentNode == d.memory.nodes[d.focus]
        d1  == [d EXCEPT !.goals.active = Shift(@)]
        d2  == ForEachSubConcept(d1, parentNode, Reverse(subConcepts), 0)
    IN  Pair(d2, lg2)

\* Variant of line 260: focus is not assigned.
SetFocusFromGoalSkipped(d, goal) == d

\* line 260
SetFocusFromGoal(d, goal) == [d EXCEPT !.focus = MatchQuoted(goal)]

\* Variant of line 282: a plain else, so every goal that is not "Deepen
\* understanding" is broken down.
GoalBranchElseBreakDown(d, lg, rnd) ==
    LET goal == d.goals.active[1]
        d1   == SetFocusFromGoal(d, goal)
        lg1  == logToSim(lg, FocusMsg(d1.focus), "info")
        shouldFail == ShouldFail(rnd, d1.state.pain)
    IN  IF Includes(goal, "Deepen understanding")
        THEN IF shouldFail THEN DeepenFailure(d1, lg1) ELSE DeepenSuccess(d1, lg1)
        ELSE BreakDown(d1, lg1)

\* Variant of line 282: the breakdown is skipped when shouldFail is set.
GoalBranchBreakDownCanFail(d, lg, rnd) ==
    LET goal == d.goals.active[1]
        d1   == SetFocusFromGoal(d, goal)
        lg1  == logToSim(lg, FocusMsg(d1.focus), "info")
        shouldFail == ShouldFail(rnd, d1.state.pain)
    IN  IF Includes(goal, "Deepen understanding")
        THEN IF shouldFail THEN DeepenFailure(d1, lg1) ELSE DeepenSuccess(d1, lg1)
        ELSE IF Includes(goal, "Break down") /\ ~shouldFail
        THEN BreakDown(d1, lg1)
        ELSE Pair(d1, lg1)

\* Variant of lines 282-297: a goal of any other kind is shifted off active.
GoalBranchDropsUnhandled(d, lg, rnd) ==
    LET goal == d.goals.active[1]
        d1   == SetFocusFromGoal(d, goal)
        lg1  == logToSim(lg, FocusMsg(d1.focus), "info")
        shouldFail == ShouldFail(rnd, d1.state.pain)
    IN  IF Includes(goal, "Deepen understanding")
        THEN IF shouldFail THEN DeepenFailure(d1, lg1) ELSE DeepenSuccess(d1, lg1)
        ELSE IF Includes(goal, "Break down")
        THEN BreakDown(d1, lg1)
        ELSE Pair([d1 EXCEPT !.goals.active = Shift(@)], lg1)

\* lines 258-297: the branch taken when goals.active is not empty.
GoalBranch(d, lg, rnd) ==
    LET goal == d.goals.active[1]
        d1   == SetFocusFromGoal(d, goal)
        lg1  == logToSim(lg, FocusMsg(d1.focus), "info")
        shouldFail == ShouldFail(rnd, d1.state.pain)
    IN  IF Includes(goal, "Deepen understanding")
        THEN IF shouldFail THEN DeepenFailure(d1, lg1) ELSE DeepenSuccess(d1, lg1)
        ELSE IF Includes(goal, "Break down")
        THEN BreakDown(d1, lg1)
        ELSE Pair(d1, lg1)

\* Variant of lines 307-309: links are followed from source to target only.
RECURSIVE NeighborsForwardOnly(_, _)
NeighborsForwardOnly(links, focus) ==
    IF links = <<>> THEN <<>>
    ELSE LET l == Head(links)
         IN  (IF l.source = focus THEN <<l.target>> ELSE <<>>)
                 \o NeighborsForwardOnly(Tail(links), focus)

\* lines 307-309: filter and map over the links.
RECURSIVE Neighbors(_, _)
Neighbors(links, focus) ==
    IF links = <<>> THEN <<>>
    ELSE LET l == Head(links)
         IN  (IF l.source = focus \/ l.target = focus
              THEN <<IF l.source = focus THEN l.target ELSE l.source>>
              ELSE <<>>) \o Neighbors(Tail(links), focus)

\* Math.floor(Math.random() * n), zero-based (line 311).
RandomIndex(rnd, n) == (rnd * n) \div 100

\* Variant of lines 302-305: seeking novelty also raises curiosity.
IdleBranchRaisingCuriosity(d, lg, rnd) ==
    LET lg1 == logToSim(lg, IdleMsg, "info")
        d1  == [d EXCEPT !.state.boredom = BoredomAfterIdle(d.state.boredom)]
    IN  IF BoredomThresholdReached(d1.state.boredom)
        THEN LET lg2 == logToSim(lg1, BoredomMsg, "critical")
                 d2  == [d1 EXCEPT !.goals.active = Push(@, ExpandGoal(d1.focus))]
                 d3  == [d2 EXCEPT !.state.boredom = 0,
                                   !.state.curiosity = Min(100, @ + 10)]
             IN  Pair(d3, lg2)
        ELSE LET neighbors == Neighbors(d1.memory.links, d1.focus)
             IN  IF Len(neighbors) > 0
                 THEN LET d2 == [d1 EXCEPT !.focus = neighbors[RandomIndex(rnd, Len(neighbors)) + 1]]
                      IN  Pair(d2, logToSim(lg1, WanderMsg(d2.focus), "info"))
                 ELSE Pair(d1, lg1)

\* lines 298-315: the idle branch.
IdleBranch(d, lg, rnd) ==
    LET lg1 == logToSim(lg, IdleMsg, "info")
        d1  == [d EXCEPT !.state.boredom = BoredomAfterIdle(d.state.boredom)]
    IN  IF BoredomThresholdReached(d1.state.boredom)
        THEN LET lg2 == logToSim(lg1, BoredomMsg, "critical")
                 d2  == [d1 EXCEPT !.goals.active = Push(@, ExpandGoal(d1.focus))]
                 d3  == [d2 EXCEPT !.state.boredom = 0]
             IN  Pair(d3, lg2)
        ELSE LET neighbors == Neighbors(d1.memory.links, d1.focus)
             IN  IF Len(neighbors) > 0
                 THEN LET d2 == [d1 EXCEPT !.focus = neighbors[RandomIndex(rnd, Len(neighbors)) + 1]]
                      IN  Pair(d2, logToSim(lg1, WanderMsg(d2.focus), "info"))
                 ELSE Pair(d1, lg1)

\* The updater passed to setSimData (lines 255-317), with the log updates
\* it queues.
Cycle(currentData, prevLog, rnd) ==
    LET newData == JSONClone(currentData)
    IN  IF Len(newData.goals.active) > 0
        THEN GoalBranch(newData, prevLog, rnd)
        ELSE IdleBranch(newData, prevLog, rnd)

\* The updater throws a TypeError (and commits nothing) when the head goal
\* has no quoted concept (line 260), or when the focused concept has no node
\* where one is written (line 278) or read (lines 286-291).
Throws(d, rnd) ==
    /\ Len(d.goals.active) > 0
    /\ LET goal == d.goals.active[1]
       IN  \/ MatchQuoted(goal) = NoMatch
           \/ /\ Includes(goal, "Deepen understanding")
              /\ ~ShouldFail(rnd, d.state.pain)
              /\ MatchQuoted(goal) \notin DOMAIN d.memory.nodes
           \/ /\ ~Includes(goal, "Deepen understanding")
              /\ Includes(goal, "Break down")
              /\ MatchQuoted(goal) \notin DOMAIN d.memory.nodes

\* Nodes a run has added since the template's four.
Breakdowns(d) == (Cardinality(DOMAIN d.memory.nodes) - Cardinality(DOMAIN InitialSnapshot.memory.nodes)) \div 2

\* The step would be one more "Break down" than the model's budget.
OverBudget(d) ==
    /\ Len(d.goals.active) > 0
    /\ ~Includes(d.goals.active[1], "Deepen understanding")
    /\ Includes(d.goals.active[1], "Break down")
    /\ Breakdowns(d) >= MaxBreakdowns

\* runSimulationCycle (lines 254-318), one press of "Run Cycle".
runSimulationCycle(rnd) ==
    /\ ~Throws(simData, rnd)
    /\ ~OverBudget(simData)
    /\ LET r == Cycle(simData, log, rnd)
       IN  /\ simData' = r.data
           /\ log' = r.log
    /\ UNCHANGED initialSimState

\* Variant of lines 320-323: only the log is reset.
resetSimulationLogOnly ==
    /\ log' = ResetLog
    /\ UNCHANGED <<simData, initialSimState>>

\* resetSimulation (lines 320-323), one press of "Reset".
resetSimulation ==
    /\ simData' = JSONClone(initialSimState)
    /\ log' = ResetLog
    /\ UNCHANGED initialSimState

RunCycle == \E rnd \in RandomDraws : runSimulationCycle(rnd)

\* useState initial values (lines 247-248).
Init ==
    /\ initialSimState = InitialSnapshot
    /\ simData = JSONClone(initialSimState)
    /\ log = StartLog

Next == RunCycle \/ resetSimulation

Spec == Init /\ [][Next]_vars

\* ================================================================ claims
\* A transition that is a press of "Run Cycle": it appends to the log, a
\* press of "Reset" leaves the one-entry reset log.
CycleStep == log' # ResetLog

ResetStep == log' = ResetLog

\* goal is one of the three goal texts written for concept c.
GoalNames(goal, c) == goal \in {DeepenGoal(c), BreakDownGoal(c), ExpandGoal(c)}

\* The entries a step appended: the log keeps the last 21 of old and new.
Last21(s) == IF Len(s) <= 21 THEN s ELSE SubSeq(s, Len(s) - 20, Len(s))

Emitted(events) == log' = Last21(log \o events)

\* C1: in every reachable state curiosity, boredom and pain are each
\* between 0 and 100 inclusive.
C1_DrivesInRange ==
    /\ simData.state.curiosity \in 0..100
    /\ simData.state.boredom \in 0..100
    /\ simData.state.pain \in 0..100

\* C1 witness: a success after a failure has lowered pain from 25 to 5, and
\* a later failure raised it again.
C1_Witness ==
    /\ simData.state.pain = 30
    /\ Len(simData.goals.completed) = 1

\* C2 as stated: whenever the active list is non-empty, focus is the concept
\* named by the goal at its head.
C2_FocusIsHeadConcept ==
    Len(simData.goals.active) > 0 => GoalNames(simData.goals.active[1], simData.focus)

\* C2 amended: a step taken with a non-empty active list leaves focus at the
\* concept of the goal that was at the head when the step began; that is the
\* concept of the resulting head whenever the step left the list's length
\* unchanged (it did not remove the head goal).
C2_FocusIsHeadAtStepStart ==
    [][(CycleStep /\ Len(simData.goals.active) > 0) =>
          /\ GoalNames(simData.goals.active[1], simData'.focus)
          /\ Len(simData'.goals.active) = Len(simData.goals.active)
                => GoalNames(simData'.goals.active[1], simData'.focus)]_vars

\* C2 witness: after a breakdown of 'belief system' focus is still the
\* parent while the head goal names its first sub-concept.
C2_Witness ==
    /\ simData.focus = BeliefSystem
    /\ Len(simData.goals.active) > 0
    /\ simData.goals.active[1] = DeepenGoal(BeliefSystem \o <<"-A">>)

\* C3: focus, the concept of every active and completed goal and both ends
\* of every link are keys of memory.nodes, so no step reads a missing node.
C3_ReferencesExist ==
    LET nodes == DOMAIN simData.memory.nodes
    IN  /\ simData.focus \in nodes
        /\ \A i \in DOMAIN simData.goals.active :
              \E c \in nodes : GoalNames(simData.goals.active[i], c)
        /\ \A i \in DOMAIN simData.goals.completed :
              \E c \in nodes : GoalNames(simData.goals.completed[i], c)
        /\ \A i \in DOMAIN simData.memory.links :
              /\ simData.memory.links[i].source \in nodes
              /\ simData.memory.links[i].target \in nodes
        /\ \A rnd \in RandomDraws : ~Throws(simData, rnd)

\* C3 witness: a breakdown inside a breakdown has added nodes, links and
\* goals for second-level sub-concepts, and one goal is completed.
C3_Witness ==
    /\ BeliefSystem \o <<"-B", "-A">> \in DOMAIN simData.memory.nodes
    /\ Len(simData.memory.links) = 7
    /\ Len(simData.goals.completed) = 1
    /\ Len(simData.goals.active) = 2

\* C4 as stated: every node of the memory graph, sub-concept nodes of nested
\* breakdowns included, has x and y within [0,100].
C4_NodesInRange ==
    \A c \in DOMAIN simData.memory.nodes :
        /\ simData.memory.nodes[c].x \in 0..100
        /\ simData.memory.nodes[c].y \in 0..100

\* C5: a "Break down" step for concept c leaves completed alone, adds the
\* two nodes c-A and c-B (new, not understood) and two links from c to them,
\* and puts Deepen(c-A), Deepen(c-B) in front of the goals that were behind
\* the removed head.
C5_BreakDownStep ==
    [][\A c \in DOMAIN simData.memory.nodes :
          (CycleStep /\ Len(simData.goals.active) > 0
                     /\ simData.goals.active[1] = BreakDownGoal(c)) =>
             LET cA == c \o <<"-A">>
                 cB == c \o <<"-B">>
                 old == simData.memory
                 new == simData'.memory
                 n   == Len(old.links)
             IN  /\ simData'.goals.completed = simData.goals.completed
                 /\ cA \notin DOMAIN old.nodes /\ cB \notin DOMAIN old.nodes
                 /\ DOMAIN new.nodes = DOMAIN old.nodes \cup {cA, cB}
                 /\ Cardinality(DOMAIN new.nodes) = Cardinality(DOMAIN old.nodes) + 2
                 /\ ~new.nodes[cA].understood /\ ~new.nodes[cB].understood
                 /\ \A k \in DOMAIN old.nodes : new.nodes[k] = old.nodes[k]
                 /\ Len(new.links) = n + 2
                 /\ SubSeq(new.links, 1, n) = old.links
                 /\ {new.links[n + 1], new.links[n + 2]} =
                        {[source |-> c, target |-> cA], [source |-> c, target |-> cB]}
                 /\ simData'.goals.active =
                        <<DeepenGoal(cA), DeepenGoal(cB)>> \o Tail(simData.goals.active)]_vars

\* C5 witness: 'belief system-A' was broken down while the goal for
\* 'belief system-B' waited behind it.
C5_Witness ==
    simData.goals.active = << DeepenGoal(BeliefSystem \o <<"-A", "-A">>),
                              DeepenGoal(BeliefSystem \o <<"-A", "-B">>),
                              DeepenGoal(BeliefSystem \o <<"-B">>) >>

\* C6: with one "Deepen understanding" goal and a draw below 0.25 on every
\* step, pain goes 0, 25, 50, 75 with only the focus and warning events, and
\* the step taken at 75 replaces the goal by "Break down" of the same
\* concept, sets pain to 0 and emits the critical and the strategy events.
C6_FourFailuresThenShift ==
    [][\A rnd \in RandomDraws : \A c \in DOMAIN simData.memory.nodes :
          (/\ rnd < 25
           /\ simData.state.pain \in {0, 25, 50, 75}
           /\ simData.goals.active = <<DeepenGoal(c)>>
           /\ runSimulationCycle(rnd)) =>
             IF simData.state.pain < 75
             THEN /\ simData'.state.pain = simData.state.pain + 25
                  /\ simData'.goals.active = simData.goals.active
                  /\ Emitted(<<Entry("info", FocusMsg(c)), Entry("warn", MalformedMsg)>>)
             ELSE /\ simData'.state.pain = 0
                  /\ simData'.goals.active = <<BreakDownGoal(c)>>
                  /\ Emitted(<<Entry("info", FocusMsg(c)), Entry("warn", MalformedMsg),
                               Entry("critical", PainMsg(c)), Entry("info", StrategyMsg)>>)]_vars

\* C6 witness: the state four failing steps after the start.
C6_Witness ==
    /\ simData.goals.active = <<BreakDownGoal(BeliefSystem)>>
    /\ simData.state.pain = 0
    /\ log = StartLog
             \o <<Entry("info", FocusMsg(BeliefSystem)), Entry("warn", MalformedMsg)>>
             \o <<Entry("info", FocusMsg(BeliefSystem)), Entry("warn", MalformedMsg)>>
             \o <<Entry("info", FocusMsg(BeliefSystem)), Entry("warn", MalformedMsg)>>
             \o <<Entry("info", FocusMsg(BeliefSystem)), Entry("warn", MalformedMsg),
                  Entry("critical", PainMsg(BeliefSystem)), Entry("info", StrategyMsg)>>

\* C7: a "Deepen understanding" step for c that does not fail marks c
\* understood, moves the goal from the head of active to the end of
\* completed, lowers pain by 20 but not below 0, and changes nothing else;
\* from the initial snapshot it gives focus 'belief system', no active goal,
\* one completed goal and pain 0.
C7_SuccessStep ==
    [][\A rnd \in RandomDraws : \A c \in DOMAIN simData.memory.nodes :
          (/\ rnd >= 25 /\ simData.state.pain <= 50
           /\ Len(simData.goals.active) > 0
           /\ simData.goals.active[1] = DeepenGoal(c)
           /\ runSimulationCycle(rnd)) =>
             /\ simData'.memory.nodes[c].understood
             /\ simData'.goals.active = Tail(simData.goals.active)
             /\ simData'.goals.completed = Append(simData.goals.completed, DeepenGoal(c))
             /\ simData'.state.pain =
                    (IF simData.state.pain >= 20 THEN simData.state.pain - 20 ELSE 0)
             /\ simData'.state.boredom = simData.state.boredom
             /\ simData'.state.curiosity = simData.state.curiosity
             /\ simData'.memory.links = simData.memory.links
             /\ DOMAIN simData'.memory.nodes = DOMAIN simData.memory.nodes
             /\ \A k \in DOMAIN simData.memory.nodes :
                    /\ k # c => simData'.memory.nodes[k] = simData.memory.nodes[k]
                    /\ simData'.memory.nodes[k].x = simData.memory.nodes[k].x
                    /\ simData'.memory.nodes[k].y = simData.memory.nodes[k].y
             /\ simData = InitialSnapshot =>
                    /\ simData'.focus = BeliefSystem
                    /\ simData'.goals.active = <<>>
                    /\ Len(simData'.goals.completed) = 1
                    /\ simData'.state.pain = 0]_vars

\* C7 witness: 'belief system' understood at the second attempt, pain
\* lowered from 25 to 5.
C7_Witness ==
    /\ simData.memory.nodes[BeliefSystem].understood
    /\ simData.goals.active = <<>>
    /\ simData.goals.completed = <<DeepenGoal(BeliefSystem)>>
    /\ simData.state.pain = 5
    /\ simData.state.boredom = 0

\* C8: in any step other than a reset every node stays, an understood node
\* stays understood, a node becomes understood only in the successful
\* "Deepen understanding" step for its own concept, and a goal appended to
\* completed was not in completed before.
C8_UnderstoodOnce ==
    [][CycleStep =>
          /\ \A c \in DOMAIN simData.memory.nodes :
                /\ c \in DOMAIN simData'.memory.nodes
                /\ simData.memory.nodes[c].understood => simData'.memory.nodes[c].understood
                /\ simData'.memory.nodes[c].understood # simData.memory.nodes[c].understood =>
                      /\ Len(simData.goals.active) > 0
                      /\ simData.goals.active[1] = DeepenGoal(c)
                      /\ simData'.goals.active = Tail(simData.goals.active)
                      /\ simData'.goals.completed = Append(simData.goals.completed, DeepenGoal(c))
                      /\ Emitted(<<Entry("info", FocusMsg(c)), Entry("success", UnderstoodMsg(c))>>)
          /\ \A c \in DOMAIN simData'.memory.nodes \ DOMAIN simData.memory.nodes :
                ~simData'.memory.nodes[c].understood
          /\ \/ simData'.goals.completed = simData.goals.completed
             \/ /\ Len(simData'.goals.completed) = Len(simData.goals.completed) + 1
                /\ SubSeq(simData'.goals.completed, 1, Len(simData.goals.completed))
                      = simData.goals.completed
                /\ \A i \in DOMAIN simData.goals.completed :
                      simData.goals.completed[i]
                          # simData'.goals.completed[Len(simData'.goals.completed)]]_vars

\* C8 witness: both sub-concepts of 'belief system' understood, one after
\* the other, the parent still not understood.
C8_Witness ==
    /\ simData.goals.completed = << DeepenGoal(BeliefSystem \o <<"-A">>),
                                    DeepenGoal(BeliefSystem \o <<"-B">>) >>
    /\ simData.memory.nodes[BeliefSystem \o <<"-A">>].understood
    /\ simData.memory.nodes[BeliefSystem \o <<"-B">>].understood
    /\ ~simData.memory.nodes[BeliefSystem].understood

\* C9: with no active goal boredom is 0, 15, 30, 45 or 60; an idle step
\* from below 60 adds exactly 15 and pushes no goal, and the idle step from
\* 60 (the fifth since boredom was 0) pushes the single goal "Expand
\* knowledge" for the current focus, sets boredom to 0 and keeps focus.
C9_FifthIdleStepExpands ==
    [][(CycleStep /\ Len(simData.goals.active) = 0) =>
          /\ simData.state.boredom \in {0, 15, 30, 45, 60}
          /\ IF simData.state.boredom < 60
             THEN /\ simData'.state.boredom = simData.state.boredom + 15
                  /\ simData'.goals.active = <<>>
             ELSE /\ simData'.state.boredom = 0
                  /\ simData'.goals.active = <<ExpandGoal(simData.focus)>>
                  /\ simData'.focus = simData.focus]_vars

\* C9 witness: the boredom threshold has just fired after a walk from
\* 'belief system' to 'creativity'.
C9_Witness ==
    /\ simData.goals.active = <<ExpandGoal(Creativity)>>
    /\ simData.state.boredom = 0
    /\ simData.focus = Creativity
    /\ log[Len(log)] = Entry("critical", BoredomMsg)

\* C10: the template initialSimState is never changed, and every reset
\* leaves simData equal to it in every field.
C10_ResetRestoresSnapshot ==
    /\ [](initialSimState = InitialSnapshot)
    /\ [][ResetStep =>
             /\ simData'.state = InitialSnapshot.state
             /\ simData'.goals = InitialSnapshot.goals
             /\ simData'.memory = InitialSnapshot.memory
             /\ simData'.focus = InitialSnapshot.focus
             /\ simData' = initialSimState']_vars

\* C10 witness: the state right after a reset.
C10_Witness ==
    /\ log = ResetLog
    /\ simData = InitialSnapshot
    /\ initialSimState = InitialSnapshot

\* C11: the log always holds between 1 and 21 entries, and a step's entries
\* are appended in order at the end of the log, dropping only oldest
\* entries: the log after a step is the last 21 entries of the old log
\* followed by the one to four entries the step appended.
C11_LogBounded ==
    /\ [](Len(log) \in 1..21)
    /\ [][CycleStep =>
             \E k \in 1..4 :
                /\ k <= Len(log')
                /\ Emitted(SubSeq(log', Len(log') - k + 1, Len(log')))]_vars

\* C11 witness: a full log whose first entry is no longer the start or the
\* reset message, and whose last entry is the newest event.
C11_Witness ==
    /\ Len(log) = 21
    /\ log[1] \notin {StartLog[1], ResetLog[1]}
    /\ log[21] = Entry("info", WanderMsg(Knowledge))

\* C13: no step of any kind changes curiosity, so in every reachable state
\* it has the value the template gives it.
C13_CuriosityUntouched ==
    /\ simData.state.curiosity = 65
    /\ simData.state.curiosity = initialSimState.state.curiosity

\* C13 witness: a run that has seen a failure, a strategy shift, a
\* breakdown, successes, idle steps, the boredom threshold and a step on the
\* "Expand knowledge" goal.
C13_Witness ==
    /\ simData.state.curiosity = 65
    /\ Cardinality(DOMAIN simData.memory.nodes) = 6
    /\ Len(simData.goals.completed) = 2
    /\ Len(simData.goals.active) = 1
    /\ Includes(simData.goals.active[1], ExpandPrefix)
    /\ log[Len(log)] = Entry("info", FocusMsg(simData.focus))

\* C14: a step taken with an "Expand knowledge" goal for c at the head
\* raises no error, sets focus to c and emits the focus event only; drives,
\* both goal lists, nodes and links are as before.
C14_ExpandStepIsNoOp ==
    /\ [](\A c \in DOMAIN simData.memory.nodes :
             (Len(simData.goals.active) > 0 /\ simData.goals.active[1] = ExpandGoal(c)) =>
                \A rnd \in RandomDraws : ~Throws(simData, rnd) /\ ~OverBudget(simData))
    /\ [][\A c \in DOMAIN simData.memory.nodes :
             (CycleStep /\ Len(simData.goals.active) > 0
                        /\ simData.goals.active[1] = ExpandGoal(c)) =>
                /\ simData'.focus = c
                /\ simData'.state = simData.state
                /\ simData'.goals = simData.goals
                /\ simData'.memory = simData.memory
                /\ Emitted(<<Entry("info", FocusMsg(c))>>)]_vars

\* C14 witness: a step has been taken on the goal "Expand knowledge from
\* 'knowledge'" that the boredom threshold pushed.
C14_Witness ==
    /\ simData.goals.active = <<ExpandGoal(Knowledge)>>
    /\ simData.focus = Knowledge
    /\ Len(log) >= 2
    /\ log[Len(log) - 1] = Entry("info", FocusMsg(Knowledge))
    /\ log[Len(log)] = Entry("info", FocusMsg(Knowledge))

\* C15: a failing "Deepen understanding" step for c raises pain by 25, at
\* most to 100; below 80 the goal lists and the memory graph stay as they
\* were; from 80 on the head goal is replaced in place by "Break down" of c,
\* the rest of active, completed and the memory graph stay, and pain is 0.
C15_FailureStep ==
    [][\A rnd \in RandomDraws : \A c \in DOMAIN simData.memory.nodes :
          (/\ Len(simData.goals.active) > 0
           /\ simData.goals.active[1] = DeepenGoal(c)
           /\ rnd < 25 \/ simData.state.pain > 50
           /\ runSimulationCycle(rnd)) =>
             LET raised == IF simData.state.pain + 25 > 100 THEN 100
                           ELSE simData.state.pain + 25
             IN  /\ simData'.memory = simData.memory
                 /\ simData'.goals.completed = simData.goals.completed
                 /\ simData'.state.boredom = simData.state.boredom
                 /\ IF raised < 80
                    THEN /\ simData'.state.pain = raised
                         /\ simData'.goals.active = simData.goals.active
                    ELSE /\ simData'.state.pain = 0
                         /\ Len(simData'.goals.active) = Len(simData.goals.active)
                         /\ simData'.goals.active[1] = BreakDownGoal(c)
                         /\ Tail(simData'.goals.active) = Tail(simData.goals.active)]_vars

\* C15 witness: the strategy shift on 'belief system-A' left its "Break
\* down" goal ahead of the waiting goal for 'belief system-B', after
\* failures that had only raised pain.
C15_Witness ==
    /\ simData.goals.active = << BreakDownGoal(BeliefSystem \o <<"-A">>),
                                 DeepenGoal(BeliefSystem \o <<"-B">>) >>
    /\ simData.state.pain = 0
    /\ Len(log) >= 10
    /\ log[Len(log) - 4] = Entry("warn", MalformedMsg)
    /\ log[Len(log) - 5] = Entry("info", FocusMsg(BeliefSystem \o <<"-A">>))
    /\ log[Len(log) - 1] = Entry("critical", PainMsg(BeliefSystem \o <<"-A">>))

\* C16: a "Deepen understanding" step for c takes the failure branch (the
\* warning is logged, c is not marked, nothing is completed) exactly when the
\* draw is below 0.25 or pain before the step is above 50, and the success
\* branch otherwise.
C16_FailsIffDrawOrPain ==
    [][\A rnd \in RandomDraws : \A c \in DOMAIN simData.memory.nodes :
          (/\ Len(simData.goals.active) > 0
           /\ simData.goals.active[1] = DeepenGoal(c)
           /\ runSimulationCycle(rnd)) =>
             LET focusEntry == Entry("info", FocusMsg(c))
                 warnEntry  == Entry("warn", MalformedMsg)
                 failed ==
                    /\ \/ Emitted(<<focusEntry, warnEntry>>)
                       \/ Emitted(<<focusEntry, warnEntry,
                                    Entry("critical", PainMsg(c)), Entry("info", StrategyMsg)>>)
                    /\ simData'.memory = simData.memory
                    /\ simData'.goals.completed = simData.goals.completed
                 succeeded ==
                    /\ Emitted(<<focusEntry, Entry("success", UnderstoodMsg(c))>>)
                    /\ simData'.memory.nodes[c].understood
                    /\ simData'.goals.completed = Append(simData.goals.completed, DeepenGoal(c))
             IN  /\ failed # succeeded
                 /\ failed <=> (rnd < 25 \/ simData.state.pain > 50)
                 /\ simData.state.pain > 50 => failed
                 /\ (simData.state.pain <= 50 /\ rnd >= 25) => succeeded]_vars

\* C16 witness: one goal was completed by a draw of at least 0.25 while pain
\* was low, and failures have since taken pain to 55, where every draw fails.
C16_Witness ==
    /\ simData.state.pain = 55
    /\ Len(simData.goals.completed) = 1
    /\ Len(simData.goals.active) > 0
    /\ simData.goals.active[1] = DeepenGoal(BeliefSystem \o <<"-B">>)

\* Pain levels tried on a "Break down" step: the floor, both sides of the
\* limit of line 263, the highest level a run shows, and the ceiling.
C17_PainLevels == {0, 50, 55, 75, 100}

\* C17: a "Break down" step for c performs the breakdown whatever the draw
\* and leaves pain, boredom and curiosity as they were; the updater gives
\* one and the same result for every draw, also when it is handed the state
\* with pain at any other level, above 50 included.
C17_BreakDownAlwaysSucceeds ==
    /\ [](\A c \in DOMAIN simData.memory.nodes :
             (Len(simData.goals.active) > 0 /\ simData.goals.active[1] = BreakDownGoal(c)) =>
                \A p \in C17_PainLevels : \A rnd \in RandomDraws :
                   LET given == [simData EXCEPT !.state.pain = p]
                       r     == Cycle(given, log, rnd)
                   IN  /\ ~Throws(given, rnd)
                       /\ r = Cycle(given, log, 90)
                       /\ r.data.state = given.state
                       /\ {c \o <<"-A">>, c \o <<"-B">>} \subseteq DOMAIN r.data.memory.nodes
                       /\ r.data.goals.active[1] = DeepenGoal(c \o <<"-A">>))
    /\ [][\A rnd \in RandomDraws : \A c \in DOMAIN simData.memory.nodes :
             (/\ Len(simData.goals.active) > 0
              /\ simData.goals.active[1] = BreakDownGoal(c)
              /\ runSimulationCycle(rnd)) =>
                /\ simData'.state = simData.state
                /\ {c \o <<"-A">>, c \o <<"-B">>} \subseteq DOMAIN simData'.memory.nodes
                /\ simData'.goals.active[1] = DeepenGoal(c \o <<"-A">>)
                /\ Emitted(<<Entry("info", FocusMsg(c)),
                             Entry("success", BrokeDownMsg(c)),
                             Entry("info", DiscoveredMsg(<<c \o <<"-A">>, c \o <<"-B">>>>))>>)]_vars

\* C17 witness: 'belief system-B' has just been broken down, with pain 0
\* and 'belief system-A' understood before.
C17_Witness ==
    /\ Len(simData.goals.active) = 2
    /\ simData.goals.active[1] = DeepenGoal(BeliefSystem \o <<"-B", "-A">>)
    /\ simData.focus = BeliefSystem \o <<"-B">>
    /\ simData.state.pain = 0
    /\ log[Len(log)] = Entry("info", DiscoveredMsg(<< BeliefSystem \o <<"-B", "-A">>,
                                                       BeliefSystem \o <<"-B", "-B">> >>))

\* The concepts joined to c by some link, at either end.
C18_NeighbourSet(c) ==
    {simData.memory.links[i].target :
        i \in {j \in DOMAIN simData.memory.links : simData.memory.links[j].source = c}}
    \cup
    {simData.memory.links[i].source :
        i \in {j \in DOMAIN simData.memory.links : simData.memory.links[j].target = c}}

\* C18: an idle step that stays below the boredom threshold moves focus to a
\* concept joined to the old focus by a link, in either direction, when
\* there is one, and keeps focus when there is none; goal lists, nodes,
\* links and pain stay and boredom has grown by 15.  In a run the focus of
\* an idle step always has a neighbour, so the case of none is the updater
\* handed the same state without its links.
C18_IdleWander ==
    /\ []((Len(simData.goals.active) = 0 /\ simData.state.boredom + 15 < 75) =>
             \A rnd \in RandomDraws :
                LET given == [simData EXCEPT !.memory.links = <<>>]
                    r     == Cycle(given, log, rnd)
                IN  /\ r.data = [given EXCEPT !.state.boredom = @ + 15]
                    /\ r.log = Last21(log \o <<Entry("info", IdleMsg)>>))
    /\ [][(/\ CycleStep
           /\ Len(simData.goals.active) = 0
           /\ simData.state.boredom + 15 < 75) =>
             /\ C18_NeighbourSet(simData.focus) # {} =>
                   simData'.focus \in C18_NeighbourSet(simData.focus)
             /\ C18_NeighbourSet(simData.focus) = {} =>
                   simData'.focus = simData.focus
             /\ simData'.goals = simData.goals
             /\ simData'.memory = simData.memory
             /\ simData'.state.pain = simData.state.pain
             /\ simData'.state.curiosity = simData.state.curiosity
             /\ simData'.state.boredom = simData.state.boredom + 15]_vars

\* C18 witness: focus has wandered from 'belief system' to 'knowledge',
\* along a link of which 'belief system' is the target, and on to
\* 'creativity'.
C18_Witness ==
    /\ simData.goals.active = <<>>
    /\ simData.state.boredom = 30
    /\ simData.focus = Creativity
    /\ log[Len(log)] = Entry("info", WanderMsg(Creativity))
    /\ log[Len(log) - 2] = Entry("info", WanderMsg(Knowledge))

\* C19: an "Expand knowledge" goal is only ever alone in active, naming the
\* focus, and every step taken while it is at the head leaves simData as it
\* is: until a reset active is never empty again, no goal is added or
\* completed, and boredom and pain keep their values.
C19_ExpandGoalFreezes ==
    /\ []((\E i \in DOMAIN simData.goals.active :
              Includes(simData.goals.active[i], ExpandPrefix)) =>
             /\ simData.goals.active = <<ExpandGoal(simData.focus)>>
             /\ simData.state.boredom = 0)
    /\ [][(/\ CycleStep
           /\ Len(simData.goals.active) > 0
           /\ Includes(simData.goals.active[1], ExpandPrefix)) =>
             /\ simData' = simData
             /\ Len(log') >= 2]_vars

\* C19 witness: so many steps were taken on the goal "Expand knowledge from
\* 'delusions'" that the log holds nothing but their focus entries.
C19_Witness ==
    /\ simData.goals.active = <<ExpandGoal(Delusions)>>
    /\ Len(log) = 21
    /\ \A i \in DOMAIN log : log[i] = Entry("info", FocusMsg(Delusions))

\* C20: in every reachable state pain is below 80 and boredom is below 75:
\* a step that takes a drive to its threshold sets it back to 0 itself.
C20_ThresholdsNeverVisible ==
    /\ simData.state.pain < 80
    /\ simData.state.boredom < 75
    /\ simData.state.pain # 100
    /\ simData.state.boredom # 100

\* C20 witness: both thresholds have fired in the run (a breakdown happened,
\* an "Expand knowledge" goal was pushed) and pain was left at 5.
C20_Witness ==
    /\ Cardinality(DOMAIN simData.memory.nodes) = 6
    /\ Len(simData.goals.active) = 1
    /\ Includes(simData.goals.active[1], ExpandPrefix)
    /\ simData.state.boredom = 0
    /\ simData.state.pain = 5

\* C21: whenever pain is above 50 and the head goal is "Deepen
\* understanding" of c, the next step, whatever its draw, replaces the head
\* by "Break down" of c and sets pain to 0; c is not marked understood and
\* nothing is completed by it.
C21_HighPainForcesShift ==
    [][\A c \in DOMAIN simData.memory.nodes :
          (/\ CycleStep
           /\ simData.state.pain > 50
           /\ Len(simData.goals.active) > 0
           /\ simData.goals.active[1] = DeepenGoal(c)) =>
             /\ simData'.goals.active = <<BreakDownGoal(c)>> \o Tail(simData.goals.active)
             /\ simData'.state.pain = 0
             /\ simData'.memory = simData.memory
             /\ simData'.goals.completed = simData.goals.completed
             /\ Emitted(<<Entry("info", FocusMsg(c)), Entry("warn", MalformedMsg),
                          Entry("critical", PainMsg(c)), Entry("info", StrategyMsg)>>)]_vars

\* C21 witness: 'belief system-A' was understood with pain falling to 5,
\* three failures on 'belief system-B' took pain to 30, 55 and over the
\* threshold, and the strategy shift followed.
C21_Witness ==
    /\ simData.goals.active = <<BreakDownGoal(BeliefSystem \o <<"-B">>)>>
    /\ simData.state.pain = 0
    /\ Len(log) >= 10
    /\ log[Len(log) - 8] = Entry("success", UnderstoodMsg(BeliefSystem \o <<"-A">>))
    /\ log[Len(log) - 1] = Entry("critical", PainMsg(BeliefSystem \o <<"-B">>))

\* The nodes marked understood.
C22_Understood == {c \in DOMAIN simData.memory.nodes : simData.memory.nodes[c].understood}

\* C22: completed holds only "Deepen understanding" goals, no two for the
\* same concept; a node is understood exactly when the goal for its concept
\* is in completed; so completed is as long as there are understood nodes.
C22_CompletedMatchesUnderstood ==
    LET completed == simData.goals.completed
    IN  /\ \A i \in DOMAIN completed :
              \E c \in DOMAIN simData.memory.nodes : completed[i] = DeepenGoal(c)
        /\ \A i, j \in DOMAIN completed : completed[i] = completed[j] => i = j
        /\ \A c \in DOMAIN simData.memory.nodes :
              simData.memory.nodes[c].understood <=>
                 \E i \in DOMAIN completed : completed[i] = DeepenGoal(c)
        /\ Len(completed) = Cardinality(C22_Understood)

\* C22 witness: three sub-concepts understood in the order their goals were
\* completed, while both broken-down parents stay not understood.
C22_Witness ==
    /\ simData.goals.completed = << DeepenGoal(BeliefSystem \o <<"-A", "-A">>),
                                    DeepenGoal(BeliefSystem \o <<"-A", "-B">>),
                                    DeepenGoal(BeliefSystem \o <<"-B">>) >>
    /\ C22_Understood = { BeliefSystem \o <<"-A", "-A">>,
                          BeliefSystem \o <<"-A", "-B">>,
                          BeliefSystem \o <<"-B">> }

\* Concept c has been broken down: one of its sub-concepts is a node.
C23_BrokenDown(c) ==
    \/ c \o <<"-A">> \in DOMAIN simData.memory.nodes
    \/ c \o <<"-B">> \in DOMAIN simData.memory.nodes

\* C23: without a reset, a concept is broken down at most once: a concept
\* that has been broken down has no "Deepen understanding" or "Break down"
\* goal left on active (an "Expand knowledge" goal, which no step acts on,
\* may name it), is not understood and stays broken down; a "Break down" goal on active is for a concept
\* whose sub-concepts c-A and c-B are not nodes yet; and the step that breaks
\* c down adds exactly c-A and c-B and leaves every node that was there as
\* it was.
C23_BrokenDownOnce ==
    /\ [](\A c \in DOMAIN simData.memory.nodes :
             /\ C23_BrokenDown(c) =>
                   /\ ~simData.memory.nodes[c].understood
                   /\ \A i \in DOMAIN simData.goals.active :
                         simData.goals.active[i] \notin {DeepenGoal(c), BreakDownGoal(c)}
                   /\ \A i \in DOMAIN simData.goals.completed :
                         ~GoalNames(simData.goals.completed[i], c)
             /\ (\E i \in DOMAIN simData.goals.active :
                    simData.goals.active[i] = BreakDownGoal(c)) => ~C23_BrokenDown(c))
    /\ [][CycleStep =>
             /\ \A c \in DOMAIN simData.memory.nodes :
                   /\ C23_BrokenDown(c) =>
                         /\ C23_BrokenDown(c)'
                         /\ ~simData'.memory.nodes[c].understood
                   /\ (/\ Len(simData.goals.active) > 0
                       /\ simData.goals.active[1] = BreakDownGoal(c)) =>
                         /\ ~C23_BrokenDown(c)
                         /\ DOMAIN simData'.memory.nodes =
                               DOMAIN simData.memory.nodes \cup {c \o <<"-A">>, c \o <<"-B">>}
                         /\ \A o \in DOMAIN simData.memory.nodes :
                               simData'.memory.nodes[o] = simData.memory.nodes[o]
             /\ DOMAIN simData.memory.nodes \subseteq DOMAIN simData'.memory.nodes]_vars

\* C23 witness: the run has ended with 'belief system' and 'belief system-A'
\* broken down and never understood, while the three leaves are understood
\* and active is empty.
C23_Witness ==
    /\ simData.goals.active = <<>>
    /\ DOMAIN simData.memory.nodes =
          DOMAIN InitialSnapshot.memory.nodes \cup
             { BeliefSystem \o <<"-A">>, BeliefSystem \o <<"-B">>,
               BeliefSystem \o <<"-A", "-A">>, BeliefSystem \o <<"-A", "-B">> }
    /\ ~simData.memory.nodes[BeliefSystem].understood
    /\ ~simData.memory.nodes[BeliefSystem \o <<"-A">>].understood
    /\ simData.memory.nodes[BeliefSystem \o <<"-A", "-A">>].understood
    /\ simData.memory.nodes[BeliefSystem \o <<"-A", "-B">>].understood
    /\ simData.memory.nodes[BeliefSystem \o <<"-B">>].understood

\* C24: whenever active is empty, focus has a neighbour, and no link ever
\* joins a concept to itself; so an idle step that stays below the boredom
\* threshold always moves focus to another concept, for every draw.
C24_IdleStepMovesFocus ==
    /\ [](/\ \A i \in DOMAIN simData.memory.links :
                simData.memory.links[i].source # simData.memory.links[i].target
          /\ Len(simData.goals.active) = 0 =>
                /\ C18_NeighbourSet(simData.focus) # {}
                /\ simData.focus \notin C18_NeighbourSet(simData.focus)
                /\ BoredomAfterIdle(simData.state.boredom) < 75 =>
                      \A rnd \in RandomDraws :
                         Cycle(simData, log, rnd).data.focus # simData.focus)
    /\ [][(/\ CycleStep
           /\ Len(simData.goals.active) = 0
           /\ simData.state.boredom + 15 < 75) =>
             /\ simData'.focus # simData.focus
             /\ simData'.focus \in C18_NeighbourSet(simData.focus)]_vars

\* C24 witness: after 'belief system' was broken down and both sub-concepts
\* understood, an idle step has moved focus from 'belief system-B' to its
\* only neighbour, the parent.
C24_Witness ==
    /\ simData.goals.active = <<>>
    /\ simData.focus = BeliefSystem
    /\ simData.state.boredom = 15
    /\ Len(log) >= 3
    /\ log[Len(log)] = Entry("info", WanderMsg(BeliefSystem))
    /\ log[Len(log) - 2] = Entry("success", UnderstoodMsg(BeliefSystem \o <<"-B">>))

====
